---------------------------- MODULE Spec2Model ----------------------------
(***************************************************************************)
(* A model of Arista SRT (src/Source code/arista-srt.py): one run of       *)
(* main() -> generate_html_report(), i.e. the four device calls, the       *)
(* counter normalizer, the environment text parser, the port ordering and  *)
(* projection, the report write and main's outer try/except.               *)
(*                                                                         *)
(* Python str values are modelled as sequences of one-character strings,   *)
(* so that replace/startswith/strip/splitlines and the regular expressions *)
(* of the source are computed character by character.  Python dicts are    *)
(* modelled as sequences of <<key, value>> pairs in insertion order (JSON  *)
(* objects received from the device, combined_data) or as functions        *)
(* (records whose fields may be missing).                                  *)
(***************************************************************************)
EXTENDS Integers, Sequences, FiniteSets, TLC

VARIABLES
    dev,                      \* what the device answers to each of the four calls
    pc,                       \* position of the run in main/generate_html_report
    calls,                    \* the command batches handed to execute_command so far
    switch_info,              \* get_switch_info's result (empty until returned)
    port_idx,                 \* get_interface_counters: index of the next rate port
    combined_data,            \* get_interface_counters: the dict being built
    lines,                    \* get_environment_info: message_str.splitlines()
    line_idx,                 \* get_environment_info: index of the next line
    cooling_status,
    ambient_temperature,
    airflow,
    fan_status_list,
    power_supply_status_list,
    parsing_fan,
    parsing_power,
    environment_info,         \* get_environment_info's result (empty until returned)
    sorted_eth_interfaces,    \* sort_eth_interfaces' result
    data,                     \* prepare_interface_data's result (empty until returned)
    raised,                   \* the exception travelling to main ("none" if none)
    report_written,           \* the report file has been written
    printed,                  \* what main has printed
    exit_status               \* the process's exit status (-1 while running)

vars == <<dev, pc, calls, switch_info, port_idx, combined_data, lines,
          line_idx,
          cooling_status, ambient_temperature, airflow, fan_status_list,
          power_supply_status_list, parsing_fan, parsing_power,
          environment_info, sorted_eth_interfaces, data, raised,
          report_written, printed, exit_status>>

-----------------------------------------------------------------------------
(* Bounds of the model.                                                     *)

\* ports in one rate-counter mapping
MaxPorts == 2
\* ports in one normalized mapping handed to the ordering step
MaxSortPorts == 4
\* lines in one environment text blob
MaxLines == 3

-----------------------------------------------------------------------------
(* Characters and Python str operations.                                    *)

DigitChars == <<"0", "1", "2", "3", "4", "5", "6", "7", "8", "9">>

\* \d
IsDigit(c) == \E i \in 1..10 : DigitChars[i] = c

DigitVal(c) == (CHOOSE i \in 1..10 : DigitChars[i] = c) - 1

LetterChars ==
    {"a", "b", "c", "d", "e", "f", "g", "h", "i", "j", "k", "l", "m",
     "n", "o", "p", "q", "r", "s", "t", "u", "v", "w", "x", "y", "z",
     "A", "B", "C", "D", "E", "F", "G", "H", "I", "J", "K", "L", "M",
     "N", "O", "P", "Q", "R", "S", "T", "U", "V", "W", "X", "Y", "Z"}

\* \w
IsWord(c) == c \in LetterChars \/ IsDigit(c) \/ c = "_"

\* \s, and what str.strip() strips
IsSpace(c) == c \in {" ", "\t", "\n", "\r", "\f"}

\* what str.splitlines() splits at
IsLineBreak(c) == c \in {"\n", "\r", "\f"}

Drop(s, m) == SubSeq(s, m + 1, Len(s))

Take(s, m) == SubSeq(s, 1, m)

\* s.startswith(p)
StartsWith(s, p) == Len(s) >= Len(p) /\ Take(s, Len(p)) = p

\* p in s
Contains(s, p) == \E i \in 0..(Len(s) - Len(p)) : SubSeq(s, i + 1, i + Len(p)) = p

\* s.replace(old, new): leftmost, non-overlapping occurrences
RECURSIVE Replace(_, _, _)
Replace(s, old, new) ==
    IF s = <<>> THEN <<>>
    ELSE IF StartsWith(s, old) THEN new \o Replace(Drop(s, Len(old)), old, new)
    ELSE <<Head(s)>> \o Replace(Tail(s), old, new)

\* the length of the longest prefix of s whose characters all satisfy the class
RECURSIVE DigitRun(_)
DigitRun(s) == IF s # <<>> /\ IsDigit(Head(s)) THEN 1 + DigitRun(Tail(s)) ELSE 0

\* int(part) for a run of decimal digits (leading zeros allowed)
RECURSIVE ParseInt(_)
ParseInt(s) ==
    IF s = <<>> THEN 0 ELSE 10 * ParseInt(Take(s, Len(s) - 1)) + DigitVal(s[Len(s)])

\* re.findall(r'\d+', s): the maximal digit runs of s, left to right
RECURSIVE FindAllDigits(_)
FindAllDigits(s) ==
    IF s = <<>> THEN <<>>
    ELSE IF IsDigit(Head(s))
         THEN <<Take(s, DigitRun(s))>> \o FindAllDigits(Drop(s, DigitRun(s)))
         ELSE FindAllDigits(Tail(s))

Ethernet == <<"E", "t", "h", "e", "r", "n", "e", "t">>

Eth == <<"E", "t", "h">>

\* port.replace("Ethernet", "Eth")
Canonical(port) == Replace(port, Ethernet, Eth)

-----------------------------------------------------------------------------
(* Python dict operations.                                                  *)

\* d.get(f, default) for a record d whose fields may be missing
Get(d, f, default) == IF f \in DOMAIN d THEN d[f] ELSE default

\* a dict held as a sequence of <<key, value>> pairs, in insertion order
DictKeys(d) == {d[i][1] : i \in 1..Len(d)}

DictGet(d, key, default) ==
    IF key \in DictKeys(d)
    THEN d[CHOOSE i \in 1..Len(d) : d[i][1] = key][2]
    ELSE default

\* d[key] = value: an existing key keeps its place, a new key goes last
DictSet(d, key, value) ==
    IF key \in DictKeys(d)
    THEN [i \in 1..Len(d) |-> IF d[i][1] = key THEN <<key, value>> ELSE d[i]]
    ELSE Append(d, <<key, value>>)

\* {}
EmptyDict == [f \in {} |-> 0]

-----------------------------------------------------------------------------
(* The device: what execute_command meets at each of the four calls.  An    *)
(* outcome is one of the four failures execute_command turns into an        *)
(* exception, or a JSON payload: well-formed ("ok"), lacking the top-level  *)
(* "result" field ("no_result"), or lacking the field read from result[0]   *)
(* ("no_field": "interfaces", "interfaceErrorCounters").                    *)

Failures == {"timeout", "network", "json", "api"}

FactsCmds == <<"show version", "show hostname">>

RatesCmds == <<"show interfaces counters rates">>

ErrorsCmds == <<"show interfaces counters errors">>

EnvCmds == <<"show environment all">>

\* execute_command without the check for 'error' in the decoded result
ExecuteCommandErrorUnchecked(outcome) ==
    CASE outcome = "timeout" -> "Connection timed out while trying to reach the switch."
      [] outcome = "network" -> "Network error"
      [] outcome = "json" -> "Invalid JSON response from the switch."
      [] OTHER -> "none"

\* the exception execute_command raises for an outcome ("none": it returns)
ExecuteCommandError(outcome) ==
    CASE outcome = "timeout" -> "Connection timed out while trying to reach the switch."
      [] outcome = "network" -> "Network error"
      [] outcome = "json" -> "Invalid JSON response from the switch."
      [] outcome = "api" -> "API error"
      [] OTHER -> "none"

\* the exception of response['result'][0][field] for a payload ("none": no exception)
SubscriptError(outcome, field) ==
    CASE outcome = "no_result" -> "KeyError: 'result'"
      [] outcome = "no_field" -> "KeyError: '" \o field \o "'"
      [] OTHER -> "none"

ErrorFields ==
    <<"inErrors", "outErrors", "frameTooLongs", "frameTooShorts",
      "fcsErrors", "alignmentErrors", "symbolErrors">>

-----------------------------------------------------------------------------
(* get_interface_counters: the counter normalizer.                          *)

RECURSIVE SumSeq(_)
SumSeq(s) == IF s = <<>> THEN 0 ELSE Head(s) + SumSeq(Tail(s))

\* the total taken from the device's record instead of being summed
TotalErrorsFromDevice(error_data) == Get(error_data, "totalErrors", 0)

\* total_errors = sum([error_data.get("inErrors", 0), ...])
TotalErrors(error_data) ==
    SumSeq([i \in 1..Len(ErrorFields) |-> Get(error_data, ErrorFields[i], 0)])

\* the record stored at combined_data[modified_port]
PortRecord(rate_data, error_data) ==
    [description     |-> Get(rate_data, "description", ""),
     outBpsRate      |-> Get(rate_data, "outBpsRate", 0),
     inBpsRate       |-> Get(rate_data, "inBpsRate", 0),
     totalErrors     |-> TotalErrors(error_data),
     inErrors        |-> Get(error_data, "inErrors", 0),
     outErrors       |-> Get(error_data, "outErrors", 0),
     frameTooLongs   |-> Get(error_data, "frameTooLongs", 0),
     frameTooShorts  |-> Get(error_data, "frameTooShorts", 0),
     fcsErrors       |-> Get(error_data, "fcsErrors", 0),
     alignmentErrors |-> Get(error_data, "alignmentErrors", 0),
     symbolErrors    |-> Get(error_data, "symbolErrors", 0)]

\* the error entry looked up under the canonical name instead of the device's
ErrorDataByCanonicalName(interfaces_errors, port) ==
    Get(interfaces_errors, Canonical(port), EmptyDict)

\* interfaces_errors.get(port, {})
ErrorData(interfaces_errors, port) == Get(interfaces_errors, port, EmptyDict)

-----------------------------------------------------------------------------
(* get_environment_info: the text table parser.                             *)

\* "N/A"
NA == <<"N", "/", "A">>

\* message_str.splitlines(): no empty last line, "\r\n" is one line break
RECURSIVE LineLen(_)
LineLen(s) == IF s # <<>> /\ ~IsLineBreak(Head(s)) THEN 1 + LineLen(Tail(s)) ELSE 0

RECURSIVE SplitLines(_)
SplitLines(s) ==
    IF s = <<>> THEN <<>>
    ELSE LET m == LineLen(s)
             brk == IF m + 2 <= Len(s) /\ s[m + 1] = "\r" /\ s[m + 2] = "\n"
                    THEN 2 ELSE 1
         IN  IF m = Len(s) THEN <<s>>
             ELSE <<Take(s, m)>> \o SplitLines(Drop(s, m + brk))

\* line.strip()
RECURSIVE LStrip(_)
LStrip(s) == IF s # <<>> /\ IsSpace(Head(s)) THEN LStrip(Tail(s)) ELSE s

RECURSIVE RStrip(_)
RStrip(s) ==
    IF s # <<>> /\ IsSpace(s[Len(s)]) THEN RStrip(Take(s, Len(s) - 1)) ELSE s

Strip(s) == RStrip(LStrip(s))

\* the character classes of the source's regular expressions:
\* "S" is \S, "s" is \s, "w" is \w, "d" is \d, "w-" is [\w-], "d." is [\d\.]
InClass(c, cls) ==
    CASE cls = "S" -> ~IsSpace(c)
      [] cls = "s" -> IsSpace(c)
      [] cls = "w" -> IsWord(c)
      [] cls = "d" -> IsDigit(c)
      [] cls = "w-" -> IsWord(c) \/ c = "-"
      [] cls = "d." -> IsDigit(c) \/ c = "."

RECURSIVE RunLen(_, _)
RunLen(s, cls) ==
    IF s # <<>> /\ InClass(Head(s), cls) THEN 1 + RunLen(Tail(s), cls) ELSE 0

\* the items of a pattern: one literal character, cls+ or cls*
Lit(c) == [kind |-> "lit", arg |-> c]

Plus(cls) == [kind |-> "plus", arg |-> cls]

Star(cls) == [kind |-> "star", arg |-> cls]

Lits(p) == [i \in 1..Len(p) |-> Lit(p[i])]

\* re.match(pattern, s): the pattern's items are matched left to right from
\* the start of s, each greedy item taking its longest run (in every pattern
\* of the source the character after a run cannot belong to the run's class,
\* so no shorter run can match); text after the last item is ignored.
\* The result is <<matched, pieces>>, pieces[i] being the text of item i.
RECURSIVE ReMatch(_, _)
ReMatch(pat, s) ==
    IF pat = <<>> THEN <<TRUE, <<>>>>
    ELSE LET item == Head(pat)
             len == IF item.kind = "lit"
                    THEN (IF s # <<>> /\ Head(s) = item.arg THEN 1 ELSE 0)
                    ELSE RunLen(s, item.arg)
         IN  IF len = 0 /\ item.kind # "star" THEN <<FALSE, <<>>>>
             ELSE LET rest == ReMatch(Tail(pat), Drop(s, len))
                  IN  <<rest[1], <<Take(s, len)>> \o rest[2]>>

CoolingPrefix ==
    <<"S", "y", "s", "t", "e", "m", " ", "c", "o", "o", "l", "i", "n", "g",
      " ", "s", "t", "a", "t", "u", "s", " ", "i", "s", ":">>

AmbientPrefix ==
    <<"A", "m", "b", "i", "e", "n", "t", " ", "t", "e", "m", "p", "e", "r",
      "a", "t", "u", "r", "e", ":">>

AirflowPrefix ==
    <<"A", "i", "r", "f", "l", "o", "w", ":">>

\* the declaration with \s+ in place of \s*
CoolingPatternSpaced == Lits(CoolingPrefix) \o <<Plus("s"), Plus("w")>>

\* r"System cooling status is:\s*(\w+)"
CoolingPattern == Lits(CoolingPrefix) \o <<Star("s"), Plus("w")>>

\* r"Ambient temperature:\s*(\d+)C"
AmbientPattern == Lits(AmbientPrefix) \o <<Star("s"), Plus("d"), Lit("C")>>

\* r"(\S+)\s+(\w+)\s+(\d+)%\s+(\d+)%"
FanPattern ==
    <<Plus("S"), Plus("s"), Plus("w"), Plus("s"), Plus("d"), Lit("%"),
      Plus("s"), Plus("d"), Lit("%")>>

\* r"(\S+)\s+([\w-]+)\s+(\d+W)\s+([\d\.]+A)\s+([\d\.]+A)\s+([\d\.]+W)\s+(\w+)"
PowerPattern ==
    <<Plus("S"), Plus("s"), Plus("w-"), Plus("s"), Plus("d"), Lit("W"),
      Plus("s"), Plus("d."), Lit("A"), Plus("s"), Plus("d."), Lit("A"),
      Plus("s"), Plus("d."), Lit("W"), Plus("s"), Plus("w")>>

CoolingMatch(line) == ReMatch(CoolingPattern, line)

TempMatch(line) == ReMatch(AmbientPattern, line)

\* r"Airflow:\s*(.+)": a line has no line break, so "." is any character;
\* \s* gives back what (.+) needs
AirflowMatches(line) == StartsWith(line, AirflowPrefix) /\ Len(line) > Len(AirflowPrefix)

AirflowGroup(line) ==
    LET rest == Drop(line, Len(AirflowPrefix))
    IN  IF LStrip(rest) # <<>> THEN LStrip(rest) ELSE <<rest[Len(rest)]>>

\* only the line "Fan Status" itself taken as the header
IsFanHeaderExact(line) == line = <<"F", "a", "n", " ", "S", "t", "a", "t", "u", "s">>

\* line.startswith("Fan") and "Status" in line
IsFanHeader(line) ==
    StartsWith(line, <<"F", "a", "n">>)
    /\ Contains(line, <<"S", "t", "a", "t", "u", "s">>)

\* line.startswith("Power") and "Supply" in line
IsPowerHeader(line) ==
    StartsWith(line, <<"P", "o", "w", "e", "r">>)
    /\ Contains(line, <<"S", "u", "p", "p", "l", "y">>)

\* re.match(r"[-\s]+", line)
IsSeparator(line) == line # <<>> /\ (Head(line) = "-" \/ IsSpace(Head(line)))

FanMatch(line) == ReMatch(FanPattern, line)

PowerMatch(line) == ReMatch(PowerPattern, line)

StrongOpen == <<"<", "s", "t", "r", "o", "n", "g", ">">>

StatusClose ==
    <<" ", "S", "t", "a", "t", "u", "s", ":", "<", "/", "s", "t", "r", "o",
      "n", "g", ">", " ">>

ConfiguredSpeedTag ==
    <<",", " ", "<", "s", "t", "r", "o", "n", "g", ">", "C", "o", "n", "f",
      "i", "g", "u", "r", "e", "d", " ", "S", "p", "e", "e", "d", ":", "<",
      "/", "s", "t", "r", "o", "n", "g", ">", " ">>

ActualSpeedTag ==
    <<"%", ",", " ", "<", "s", "t", "r", "o", "n", "g", ">", "A", "c", "t",
      "u", "a", "l", " ", "S", "p", "e", "e", "d", ":", "<", "/", "s", "t",
      "r", "o", "n", "g", ">", " ">>

ModelTag ==
    <<",", " ", "<", "s", "t", "r", "o", "n", "g", ">", "M", "o", "d", "e",
      "l", ":", "<", "/", "s", "t", "r", "o", "n", "g", ">", " ">>

CapacityTag ==
    <<",", " ", "<", "s", "t", "r", "o", "n", "g", ">", "C", "a", "p", "a",
      "c", "i", "t", "y", ":", "<", "/", "s", "t", "r", "o", "n", "g", ">",
      " ">>

InputCurrentTag ==
    <<",", " ", "<", "s", "t", "r", "o", "n", "g", ">", "I", "n", "p", "u",
      "t", " ", "C", "u", "r", "r", "e", "n", "t", ":", "<", "/", "s", "t",
      "r", "o", "n", "g", ">", " ">>

OutputCurrentTag ==
    <<",", " ", "<", "s", "t", "r", "o", "n", "g", ">", "O", "u", "t", "p",
      "u", "t", " ", "C", "u", "r", "r", "e", "n", "t", ":", "<", "/", "s",
      "t", "r", "o", "n", "g", ">", " ">>

PowerTag ==
    <<",", " ", "<", "s", "t", "r", "o", "n", "g", ">", "P", "o", "w", "e",
      "r", ":", "<", "/", "s", "t", "r", "o", "n", "g", ">", " ">>

\* the f-string appended to fan_status_list; g is the match's pieces
FanEntry(g) ==
    StrongOpen \o Canonical(g[1]) \o StatusClose \o g[3]
    \o ConfiguredSpeedTag \o g[5] \o ActualSpeedTag \o g[8] \o <<"%">>

\* the f-string appended to power_supply_status_list; g is the match's pieces
PowerEntry(g) ==
    StrongOpen \o Canonical(g[1]) \o StatusClose \o g[17]
    \o ModelTag \o g[3] \o CapacityTag \o g[5] \o g[6]
    \o InputCurrentTag \o g[8] \o g[9]
    \o OutputCurrentTag \o g[11] \o g[12]
    \o PowerTag \o g[14] \o g[15]

\* the row patterns tried whatever the section
LineRuleAnySection(line, in_fan, in_power) ==
    IF line = <<>> THEN "empty"
    ELSE IF CoolingMatch(line)[1] THEN "cooling"
    ELSE IF TempMatch(line)[1] THEN "temperature"
    ELSE IF AirflowMatches(line) THEN "airflow"
    ELSE IF IsFanHeader(line) THEN "fan_header"
    ELSE IF IsPowerHeader(line) THEN "power_header"
    ELSE IF IsSeparator(line) THEN "separator"
    ELSE IF FanMatch(line)[1] THEN "fan_row"
    ELSE IF PowerMatch(line)[1] THEN "power_row"
    ELSE "unmatched"

\* the row patterns tried before the two header rules
LineRuleRowsFirst(line, in_fan, in_power) ==
    IF line = <<>> THEN "empty"
    ELSE IF CoolingMatch(line)[1] THEN "cooling"
    ELSE IF TempMatch(line)[1] THEN "temperature"
    ELSE IF AirflowMatches(line) THEN "airflow"
    ELSE IF in_fan /\ FanMatch(line)[1] THEN "fan_row"
    ELSE IF in_power /\ PowerMatch(line)[1] THEN "power_row"
    ELSE IF IsFanHeader(line) THEN "fan_header"
    ELSE IF IsPowerHeader(line) THEN "power_header"
    ELSE IF IsSeparator(line) THEN "separator"
    ELSE IF in_fan THEN "fan_drop"
    ELSE IF in_power THEN "power_drop"
    ELSE "unmatched"

\* the branch of the loop body that the stripped line takes, in the order
\* of the source's if-statements
LineRule(line, in_fan, in_power) ==
    IF line = <<>> THEN "empty"
    ELSE IF CoolingMatch(line)[1] THEN "cooling"
    ELSE IF TempMatch(line)[1] THEN "temperature"
    ELSE IF AirflowMatches(line) THEN "airflow"
    ELSE IF IsFanHeader(line) THEN "fan_header"
    ELSE IF IsPowerHeader(line) THEN "power_header"
    ELSE IF IsSeparator(line) THEN "separator"
    ELSE IF in_fan THEN (IF FanMatch(line)[1] THEN "fan_row" ELSE "fan_drop")
    ELSE IF in_power THEN (IF PowerMatch(line)[1] THEN "power_row" ELSE "power_drop")
    ELSE "unmatched"

\* an early return with empty lists
EmptySnapshot ==
    [CoolingStatus      |-> NA,
     AmbientTemperature |-> NA,
     FanStatus          |-> <<>>,
     PowerSupplyStatus  |-> <<>>]

\* the snapshot returned when "messages" is missing or empty
SentinelSnapshot ==
    [CoolingStatus      |-> NA,
     AmbientTemperature |-> NA,
     FanStatus          |-> <<NA>>,
     PowerSupplyStatus  |-> <<NA>>]

-----------------------------------------------------------------------------
(* sort_eth_interfaces and prepare_interface_data.                          *)

\* interface_sort_key: [int(part) for part in re.findall(r'\d+', name)]
InterfaceSortKey(interface_name) ==
    LET parts == FindAllDigits(interface_name)
    IN  [i \in 1..Len(parts) |-> ParseInt(parts[i])]

\* a < b for two Python lists of ints
RECURSIVE ListLess(_, _)
ListLess(a, b) ==
    IF b = <<>> THEN FALSE
    ELSE IF a = <<>> THEN TRUE
    ELSE IF Head(a) # Head(b) THEN Head(a) < Head(b)
    ELSE ListLess(Tail(a), Tail(b))

\* the characters of port names in code point order
CodePointOrder ==
    <<"-", ".", "/", "0", "1", "2", "3", "4", "5", "6", "7", "8", "9",
      "A", "B", "C", "D", "E", "F", "G", "H", "I", "J", "K", "L", "M",
      "N", "O", "P", "Q", "R", "S", "T", "U", "V", "W", "X", "Y", "Z", "_",
      "a", "b", "c", "d", "e", "f", "g", "h", "i", "j", "k", "l", "m",
      "n", "o", "p", "q", "r", "s", "t", "u", "v", "w", "x", "y", "z">>

CodePoint(c) == CHOOSE i \in 1..Len(CodePointOrder) : CodePointOrder[i] = c

\* a < b for two Python strs
RECURSIVE StrLess(_, _)
StrLess(a, b) ==
    IF b = <<>> THEN FALSE
    ELSE IF a = <<>> THEN TRUE
    ELSE IF Head(a) # Head(b) THEN CodePoint(Head(a)) < CodePoint(Head(b))
    ELSE StrLess(Tail(a), Tail(b))

\* the items compared by their names as strings
ItemLessAsStrings(x, y) == StrLess(x[1], y[1])

\* the comparison sorted() makes between two items: by key only
ItemLess(x, y) == ListLess(InterfaceSortKey(x[1]), InterfaceSortKey(y[1]))

\* sorted() is stable: x goes before the first item that is greater than it
RECURSIVE InsertSorted(_, _)
InsertSorted(s, x) ==
    IF s = <<>> THEN <<x>>
    ELSE IF ItemLess(x, Head(s)) THEN <<x>> \o s
    ELSE <<Head(s)>> \o InsertSorted(Tail(s), x)

RECURSIVE Sorted(_)
Sorted(s) ==
    IF s = <<>> THEN <<>>
    ELSE InsertSorted(Sorted(Take(s, Len(s) - 1)), s[Len(s)])

\* {port: data for port, data in interfaces.items() if port.startswith("Eth")}
\* every port kept, whatever its name
EthInterfacesUnfiltered(interfaces) == interfaces

EthInterfaces(interfaces) == SelectSeq(interfaces, LAMBDA item : StartsWith(item[1], Eth))

SortEthInterfaces(interfaces) == Sorted(EthInterfaces(interfaces))

Million == 1000000

\* the rate passed on as it is
ScaledRateUnscaled(rate) == [whole |-> rate, micro |-> 0]

\* rate / 1_000_000 if rate else 0, as whole units and millionths
ScaledRate(rate) ==
    IF rate # 0
    THEN [whole |-> rate \div Million, micro |-> rate % Million]
    ELSE [whole |-> 0, micro |-> 0]

\* int(re.findall(r'\d+', port)[0]) raises IndexError for a port without a digit
HasPortNumber(port) == FindAllDigits(port) # <<>>

PortNumber(port) == ParseInt(FindAllDigits(port)[1])

\* a column that leaves out the ports whose value is zero
ColumnWithoutZeros(sorted_interfaces, field) ==
    SelectSeq([i \in 1..Len(sorted_interfaces) |-> Get(sorted_interfaces[i][2], field, 0)],
              LAMBDA v : v # 0)

Column(sorted_interfaces, field) ==
    [i \in 1..Len(sorted_interfaces) |-> Get(sorted_interfaces[i][2], field, 0)]

PrepareInterfaceData(sorted_interfaces) ==
    LET labels == [i \in 1..Len(sorted_interfaces) |-> sorted_interfaces[i][1]]
    IN  [labels                |-> labels,
         port_numbers          |-> [i \in 1..Len(labels) |-> PortNumber(labels[i])],
         in_bps_data           |-> [i \in 1..Len(sorted_interfaces) |->
                                      ScaledRate(sorted_interfaces[i][2].inBpsRate)],
         out_bps_data          |-> [i \in 1..Len(sorted_interfaces) |->
                                      ScaledRate(sorted_interfaces[i][2].outBpsRate)],
         in_errors_data        |-> Column(sorted_interfaces, "inErrors"),
         out_errors_data       |-> Column(sorted_interfaces, "outErrors"),
         frame_too_longs_data  |-> Column(sorted_interfaces, "frameTooLongs"),
         frame_too_shorts_data |-> Column(sorted_interfaces, "frameTooShorts"),
         fcs_errors_data       |-> Column(sorted_interfaces, "fcsErrors"),
         alignment_errors_data |-> Column(sorted_interfaces, "alignmentErrors"),
         symbol_errors_data    |-> Column(sorted_interfaces, "symbolErrors"),
         total_errors_data     |-> Column(sorted_interfaces, "totalErrors")]

-----------------------------------------------------------------------------
(* The run: main -> generate_html_report.                                   *)

counterVars == <<port_idx, combined_data>>

parseVars ==
    <<lines, line_idx, cooling_status, ambient_temperature, airflow,
      fan_status_list, power_supply_status_list, parsing_fan, parsing_power>>

projVars == <<sorted_eth_interfaces, data>>

endVars == <<report_written, printed, exit_status>>

\* an exception leaves generate_html_report and reaches main's except clause
Raise(message) == raised' = message /\ pc' = "except"

\* get_switch_info()
GetSwitchInfo ==
    /\ pc = "start"
    /\ calls' = Append(calls, FactsCmds)
    /\ IF ExecuteCommandError(dev.facts.outcome) # "none"
       THEN Raise(ExecuteCommandError(dev.facts.outcome)) /\ UNCHANGED switch_info
       ELSE IF SubscriptError(dev.facts.outcome, "result") # "none"
       THEN Raise(SubscriptError(dev.facts.outcome, "result")) /\ UNCHANGED switch_info
       ELSE /\ switch_info' = [FQDN |-> Get(dev.facts.hostname, "fqdn", "N/A")]
            /\ pc' = "rates"
            /\ UNCHANGED raised
    /\ UNCHANGED <<dev, counterVars, parseVars, environment_info, projVars, endVars>>

\* get_interface_counters: response_rates = execute_command([...rates])
CallRates ==
    /\ pc = "rates"
    /\ calls' = Append(calls, RatesCmds)
    /\ IF ExecuteCommandError(dev.rates.outcome) # "none"
       THEN Raise(ExecuteCommandError(dev.rates.outcome))
       ELSE pc' = "errors" /\ UNCHANGED raised
    /\ UNCHANGED <<dev, switch_info, counterVars, parseVars, environment_info,
                   projVars, endVars>>

\* get_interface_counters: response_errors = execute_command([...errors])
CallErrors ==
    /\ pc = "errors"
    /\ calls' = Append(calls, ErrorsCmds)
    /\ IF ExecuteCommandError(dev.errors.outcome) # "none"
       THEN Raise(ExecuteCommandError(dev.errors.outcome))
       ELSE pc' = "interfaces" /\ UNCHANGED raised
    /\ UNCHANGED <<dev, switch_info, counterVars, parseVars, environment_info,
                   projVars, endVars>>

\* get_interface_counters: interfaces_rates = response_rates['result'][0]['interfaces'],
\* interfaces_errors = response_errors['result'][0]['interfaceErrorCounters'],
\* combined_data = {}
ReadInterfaces ==
    /\ pc = "interfaces"
    /\ IF SubscriptError(dev.rates.outcome, "interfaces") # "none"
       THEN Raise(SubscriptError(dev.rates.outcome, "interfaces"))
            /\ UNCHANGED counterVars
       ELSE IF SubscriptError(dev.errors.outcome, "interfaceErrorCounters") # "none"
       THEN Raise(SubscriptError(dev.errors.outcome, "interfaceErrorCounters"))
            /\ UNCHANGED counterVars
       ELSE /\ pc' = "normalize"
            /\ port_idx' = 1
            /\ combined_data' = <<>>
            /\ UNCHANGED raised
    /\ UNCHANGED <<dev, calls, switch_info, parseVars, environment_info, projVars,
                   endVars>>

\* get_interface_counters: one iteration of the loop over interfaces_rates.items()
NormalizePort ==
    /\ pc = "normalize"
    /\ port_idx <= Len(dev.rates.interfaces)
    /\ LET port == dev.rates.interfaces[port_idx][1]
           rate_data == dev.rates.interfaces[port_idx][2]
           error_data == ErrorData(dev.errors.counters, port)
       IN  combined_data' =
               DictSet(combined_data, Canonical(port), PortRecord(rate_data, error_data))
    /\ port_idx' = port_idx + 1
    /\ UNCHANGED <<dev, pc, calls, switch_info, parseVars, environment_info, projVars,
                   raised, endVars>>

\* get_interface_counters: return combined_data
NormalizeReturn ==
    /\ pc = "normalize"
    /\ port_idx > Len(dev.rates.interfaces)
    /\ pc' = "environment"
    /\ UNCHANGED <<dev, calls, switch_info, counterVars, parseVars, environment_info,
                   projVars, raised, endVars>>

\* get_environment_info: the call, env_info.get("messages", []) and either the
\* early return or the initialisation of the parser
CallEnvironment ==
    /\ pc = "environment"
    /\ calls' = Append(calls, EnvCmds)
    /\ LET messages == Get(dev.env.env_info, "messages", <<>>)
       IN  IF ExecuteCommandError(dev.env.outcome) # "none"
           THEN Raise(ExecuteCommandError(dev.env.outcome))
                /\ UNCHANGED <<parseVars, environment_info>>
           ELSE IF SubscriptError(dev.env.outcome, "result") # "none"
           THEN Raise(SubscriptError(dev.env.outcome, "result"))
                /\ UNCHANGED <<parseVars, environment_info>>
           ELSE IF messages = <<>>
           THEN /\ environment_info' = SentinelSnapshot
                /\ pc' = "sort"
                /\ UNCHANGED <<parseVars, raised>>
           ELSE /\ lines' = SplitLines(messages[1])
                /\ line_idx' = 1
                /\ cooling_status' = NA
                /\ ambient_temperature' = NA
                /\ airflow' = NA
                /\ fan_status_list' = <<>>
                /\ power_supply_status_list' = <<>>
                /\ parsing_fan' = FALSE
                /\ parsing_power' = FALSE
                /\ pc' = "parse"
                /\ UNCHANGED <<environment_info, raised>>
    /\ UNCHANGED <<dev, switch_info, counterVars, projVars, endVars>>

\* get_environment_info: the body of the loop over lines, for lines[line_idx]
ConsumeLine ==
    /\ LET line == Strip(lines[line_idx])
           rule == LineRule(line, parsing_fan, parsing_power)
       IN  /\ cooling_status' =
                 IF rule = "cooling"
                 THEN CoolingMatch(line)[2][Len(CoolingPrefix) + 2]
                 ELSE cooling_status
           /\ ambient_temperature' =
                 IF rule = "temperature"
                 THEN TempMatch(line)[2][Len(AmbientPrefix) + 2] \o <<"C">>
                 ELSE ambient_temperature
           /\ airflow' = IF rule = "airflow" THEN AirflowGroup(line) ELSE airflow
           /\ parsing_fan' =
                 IF rule = "fan_header" THEN TRUE
                 ELSE IF rule = "power_header" THEN FALSE
                 ELSE parsing_fan
           /\ parsing_power' =
                 IF rule = "power_header" THEN TRUE
                 ELSE IF rule = "fan_header" THEN FALSE
                 ELSE parsing_power
           /\ fan_status_list' =
                 IF rule = "fan_row"
                 THEN Append(fan_status_list, FanEntry(FanMatch(line)[2]))
                 ELSE fan_status_list
           /\ power_supply_status_list' =
                 IF rule = "power_row"
                 THEN Append(power_supply_status_list, PowerEntry(PowerMatch(line)[2]))
                 ELSE power_supply_status_list
    /\ line_idx' = line_idx + 1
    /\ UNCHANGED <<dev, pc, calls, switch_info, counterVars, lines, environment_info,
                   projVars, raised, endVars>>

\* a parser that raises on a line no rule matches
ParseLineStrict ==
    /\ pc = "parse"
    /\ line_idx <= Len(lines)
    /\ IF LineRule(Strip(lines[line_idx]), parsing_fan, parsing_power)
              \in {"unmatched", "fan_drop", "power_drop"}
       THEN /\ Raise("ValueError: unrecognized line")
            /\ UNCHANGED <<dev, calls, switch_info, counterVars, parseVars,
                           environment_info, projVars, endVars>>
       ELSE ConsumeLine

\* get_environment_info: one iteration of the loop over lines
ParseLine ==
    /\ pc = "parse"
    /\ line_idx <= Len(lines)
    /\ ConsumeLine

\* the list returned as it is
OrNothing(status_list) == status_list

\* the sequence returned for a list of parsed rows: ["N/A"] if it is empty
OrSentinel(status_list) == IF status_list = <<>> THEN <<NA>> ELSE status_list

\* get_environment_info: after the loop, the sentinels and the return
ParseReturn ==
    /\ pc = "parse"
    /\ line_idx > Len(lines)
    /\ fan_status_list' = OrSentinel(fan_status_list)
    /\ power_supply_status_list' = OrSentinel(power_supply_status_list)
    /\ environment_info' =
           [CoolingStatus      |-> cooling_status,
            AmbientTemperature |-> ambient_temperature,
            FanStatus          |-> fan_status_list',
            PowerSupplyStatus  |-> power_supply_status_list']
    /\ pc' = "sort"
    /\ UNCHANGED <<dev, calls, switch_info, counterVars, lines, line_idx,
                   cooling_status, ambient_temperature, airflow, parsing_fan,
                   parsing_power, projVars, raised, endVars>>

\* sorted_eth_interfaces = sort_eth_interfaces(interface_counters)
SortInterfaces ==
    /\ pc = "sort"
    /\ sorted_eth_interfaces' = SortEthInterfaces(combined_data)
    /\ pc' = "prepare"
    /\ UNCHANGED <<dev, calls, switch_info, counterVars, parseVars, environment_info,
                   data, raised, endVars>>

\* data = prepare_interface_data(sorted_eth_interfaces)
PrepareData ==
    /\ pc = "prepare"
    /\ IF \E i \in 1..Len(sorted_eth_interfaces) :
              ~HasPortNumber(sorted_eth_interfaces[i][1])
       THEN Raise("IndexError: list index out of range") /\ UNCHANGED data
       ELSE /\ data' = PrepareInterfaceData(sorted_eth_interfaces)
            /\ pc' = "write"
            /\ UNCHANGED raised
    /\ UNCHANGED <<dev, calls, switch_info, counterVars, parseVars, environment_info,
                   sorted_eth_interfaces, endVars>>

\* generate_html_report: the template is filled and the file written
WriteReport ==
    /\ pc = "write"
    /\ report_written' = TRUE
    /\ pc' = "return"
    /\ UNCHANGED <<dev, calls, switch_info, counterVars, parseVars, environment_info,
                   projVars, raised, printed, exit_status>>

\* main: generate_html_report() returned; main returns and the process ends
MainReturn ==
    /\ pc = "return"
    /\ printed' = "Report generated successfully"
    /\ exit_status' = 0
    /\ pc' = "exited"
    /\ UNCHANGED <<dev, calls, switch_info, counterVars, parseVars, environment_info,
                   projVars, raised, report_written>>

\* main: except Exception as e; main returns and the process ends
MainExcept ==
    /\ pc = "except"
    /\ printed' = "Error generating report: " \o raised
    /\ exit_status' = 0
    /\ pc' = "exited"
    /\ UNCHANGED <<dev, calls, switch_info, counterVars, parseVars, environment_info,
                   projVars, raised, report_written>>

-----------------------------------------------------------------------------
(* The inputs: the answers of the device.                                   *)

\* all sequences over S of length at most m
SeqsUpTo(S, m) == UNION {[1..j -> S] : j \in 0..m}

\* a JSON object has each key once
DistinctKeys(d) == \A i, j \in 1..Len(d) : d[i][1] = d[j][1] => i = j

Management == <<"M", "a", "n", "a", "g", "e", "m", "e", "n", "t">>

\* port names of the rate and error mappings given to the counter normalizer
CounterPorts ==
    {Ethernet \o <<"1">>, Eth \o <<"1">>, Ethernet \o <<"2">>, Management \o <<"1">>}

RateSamples ==
    {[description |-> "uplink", inBpsRate |-> 2000000, outBpsRate |-> 1000000],
     [inBpsRate |-> 1500000]}

ErrorSamples ==
    {[inErrors |-> 1, totalErrors |-> 99],
     [inErrors |-> 1, outErrors |-> 2, frameTooLongs |-> 4, frameTooShorts |-> 8,
      fcsErrors |-> 16, alignmentErrors |-> 32, symbolErrors |-> 64,
      totalErrors |-> 0]}

RateMappings ==
    {d \in SeqsUpTo(CounterPorts \X RateSamples, MaxPorts) : DistinctKeys(d)}

ErrorMappings == UNION {[D -> ErrorSamples] : D \in SUBSET CounterPorts}

OkFacts == [outcome |-> "ok", hostname |-> [fqdn |-> "switch1"]]

NoMessages == [outcome |-> "ok", env_info |-> EmptyDict]

CounterDevices ==
    {[facts  |-> OkFacts,
      rates  |-> [outcome |-> "ok", interfaces |-> r],
      errors |-> [outcome |-> "ok", counters |-> e],
      env    |-> NoMessages] : r \in RateMappings, e \in ErrorMappings}

\* port names given to the ordering step, each with its own counters
SortPorts ==
    <<Ethernet \o <<"1", "/", "1">>,
      Ethernet \o <<"1", "/", "2">>,
      Ethernet \o <<"1", "/", "1", "0">>,
      Ethernet \o <<"2", "/", "1">>,
      Ethernet \o <<"0", "1", "/", "1">>,
      Ethernet \o <<"2">>,
      Ethernet,
      Management \o <<"1">>>>

SortRate(i) ==
    [description |-> "port", inBpsRate |-> i * 500000, outBpsRate |-> (i - 1) * 2000000]

SortErrors ==
    [p \in {SortPorts[i] : i \in {2, 3, 5}} |->
        LET i == CHOOSE j \in 1..Len(SortPorts) : SortPorts[j] = p
        IN  [inErrors |-> i, outErrors |-> 10 * i, fcsErrors |-> 100 * i]]

SortMappings ==
    {[j \in 1..Len(q) |-> <<SortPorts[q[j]], SortRate(q[j])>>] :
        q \in {q \in SeqsUpTo(1..Len(SortPorts), MaxSortPorts) :
                  \A i, j \in 1..Len(q) : q[i] = q[j] => i = j}}

SortDevices ==
    {[facts  |-> OkFacts,
      rates  |-> [outcome |-> "ok", interfaces |-> r],
      errors |-> [outcome |-> "ok", counters |-> SortErrors],
      env    |-> NoMessages] : r \in SortMappings}

CoolingLine ==
    <<"S", "y", "s", "t", "e", "m", " ", "c", "o", "o", "l", "i", "n", "g",
      " ", "s", "t", "a", "t", "u", "s", " ", "i", "s", ":", " ", "O", "K">>

CoolingLineBad ==
    <<"S", "y", "s", "t", "e", "m", " ", "c", "o", "o", "l", "i", "n", "g",
      " ", "s", "t", "a", "t", "u", "s", " ", "i", "s", ":", "B", "a", "d">>

TemperatureLine ==
    <<"A", "m", "b", "i", "e", "n", "t", " ", "t", "e", "m", "p", "e", "r",
      "a", "t", "u", "r", "e", ":", " ", "2", "5", "C">>

AirflowLine ==
    <<"A", "i", "r", "f", "l", "o", "w", ":", " ", "i", "n">>

FanHeaderLine ==
    <<"F", "a", "n", " ", "S", "t", "a", "t", "u", "s">>

PowerHeaderLine ==
    <<"P", "o", "w", "e", "r", " ", "S", "u", "p", "p", "l", "y">>

SeparatorLine ==
    <<"-", "-", "-", " ", "-", "-", "-">>

FanRowLine ==
    <<"1", " ", "O", "k", " ", "3", "0", "%", " ", "3", "1", "%">>

PaddedFanRowLine ==
    <<" ", "E", "t", "h", "e", "r", "n", "e", "t", "2", " ", "O", "k", " ",
      "4", "0", "%", " ", "4", "1", "%", " ">>

PowerRowLine ==
    <<"1", " ", "P", "W", "R", "-", "5", " ", "5", "0", "0", "W", " ", "0",
      ".", "5", "A", " ", "9", ".", "7", "A", " ", "9", "9", ".", "5", "W",
      " ", "O", "k">>

DashFanRowLine ==
    <<"-", "3", " ", "O", "k", " ", "5", "0", "%", " ", "5", "1", "%">>

FanHeaderRowLine ==
    <<"F", "a", "n", "1", " ", "S", "t", "a", "t", "u", "s", " ", "3", "0",
      "%", " ", "3", "1", "%">>

JunkLine ==
    <<"x">>

BlankLine ==
    <<" ", " ">>

EmptyLine ==
    <<>>

EnvLines ==
    {CoolingLine, CoolingLineBad, TemperatureLine, AirflowLine,
     FanHeaderLine, PowerHeaderLine, SeparatorLine, FanRowLine,
     PaddedFanRowLine, PowerRowLine, DashFanRowLine, FanHeaderRowLine,
     JunkLine, BlankLine, EmptyLine}

\* the text blob whose lines are ls
RECURSIVE JoinLines(_)
JoinLines(ls) ==
    IF ls = <<>> THEN <<>>
    ELSE IF Len(ls) = 1 THEN ls[1]
    ELSE ls[1] \o <<"\n">> \o JoinLines(Tail(ls))

Blobs == {JoinLines(ls) : ls \in SeqsUpTo(EnvLines, MaxLines)}

\* result[0] of "show environment all": no "messages", an empty list, or one blob
EnvInfos ==
    {EmptyDict, [messages |-> <<>>]} \cup {[messages |-> <<b>>] : b \in Blobs}

EnvDevices ==
    {[facts  |-> OkFacts,
      rates  |-> [outcome |-> "ok", interfaces |-> <<>>],
      errors |-> [outcome |-> "ok", counters |-> EmptyDict],
      env    |-> [outcome |-> "ok", env_info |-> e]] : e \in EnvInfos}

\* the devices of whole runs: every outcome of every call, few payloads
RunFacts ==
    {[outcome |-> o, hostname |-> h] :
        o \in Failures \cup {"ok", "no_result"},
        h \in {EmptyDict, [fqdn |-> "switch1"]}}

RunRates ==
    {[outcome |-> o, interfaces |-> r] :
        o \in Failures \cup {"ok", "no_result", "no_field"},
        r \in {<<<<Ethernet \o <<"2">>, SortRate(2)>>, <<Ethernet \o <<"1">>, SortRate(1)>>>>,
               <<<<Ethernet, SortRate(1)>>>>}}

RunErrors ==
    {[outcome |-> o, counters |-> SortErrors] :
        o \in Failures \cup {"ok", "no_result", "no_field"}}

RunEnvs ==
    {[outcome |-> o, env_info |-> e] :
        o \in Failures \cup {"ok", "no_result"},
        e \in {EmptyDict,
               [messages |-> <<JoinLines(<<CoolingLine, FanHeaderLine, FanRowLine>>)>>]}}

RunDevices ==
    {[facts |-> f, rates |-> r, errors |-> e, env |-> v] :
        f \in RunFacts, r \in RunRates, e \in RunErrors, v \in RunEnvs}

\* port names and rate records given to the projection: a rate of whole
\* millions, a rate of zero, a fractional rate, and a record without rates
ProjectPorts == {Ethernet \o <<"1">>, Ethernet \o <<"2">>, Management \o <<"1">>}

ProjectRateSamples ==
    {[description |-> "uplink", inBpsRate |-> 2000000, outBpsRate |-> 1000000],
     [description |-> "idle", inBpsRate |-> 0, outBpsRate |-> 1500000],
     [description |-> "bare"]}

ProjectRateMappings ==
    {d \in SeqsUpTo(ProjectPorts \X ProjectRateSamples, MaxPorts) : DistinctKeys(d)}

ProjectErrorMappings ==
    {EmptyDict, [p \in {Ethernet \o <<"2">>} |-> [inErrors |-> 1, fcsErrors |-> 16]]}

ProjectDevices ==
    {[facts  |-> OkFacts,
      rates  |-> [outcome |-> "ok", interfaces |-> r],
      errors |-> [outcome |-> "ok", counters |-> e],
      env    |-> NoMessages] : r \in ProjectRateMappings, e \in ProjectErrorMappings}

-----------------------------------------------------------------------------
(* Specifications.                                                          *)

\* the state in which control reaches position start with a device of devices
InitAt(devices, start) ==
    /\ dev \in devices
    /\ pc = start
    /\ calls = <<>>
    /\ switch_info = EmptyDict
    /\ port_idx = 1
    /\ combined_data = <<>>
    /\ lines = <<>>
    /\ line_idx = 1
    /\ cooling_status = NA
    /\ ambient_temperature = NA
    /\ airflow = NA
    /\ fan_status_list = <<>>
    /\ power_supply_status_list = <<>>
    /\ parsing_fan = FALSE
    /\ parsing_power = FALSE
    /\ environment_info = EmptyDict
    /\ sorted_eth_interfaces = <<>>
    /\ data = EmptyDict
    /\ raised = "none"
    /\ report_written = FALSE
    /\ printed = ""
    /\ exit_status = -1

\* one whole run of main()
Init == InitAt(RunDevices, "start")

Next ==
    \/ GetSwitchInfo
    \/ CallRates
    \/ CallErrors
    \/ ReadInterfaces
    \/ NormalizePort
    \/ NormalizeReturn
    \/ CallEnvironment
    \/ ParseLine
    \/ ParseReturn
    \/ SortInterfaces
    \/ PrepareData
    \/ WriteReport
    \/ MainReturn
    \/ MainExcept

Spec == Init /\ [][Next]_vars

\* get_interface_counters on every pair of counter mappings
InitCounters == InitAt(CounterDevices, "rates")

NextCounters ==
    \/ CallRates
    \/ CallErrors
    \/ ReadInterfaces
    \/ NormalizePort
    \/ NormalizeReturn

SpecCounters == InitCounters /\ [][NextCounters]_vars

\* get_environment_info on every environment response
InitEnv == InitAt(EnvDevices, "environment")

NextEnv ==
    \/ CallEnvironment
    \/ ParseLine
    \/ ParseReturn

SpecEnv == InitEnv /\ [][NextEnv]_vars

\* get_interface_counters, sort_eth_interfaces and prepare_interface_data on
\* every mapping of ports
InitSort == InitAt(SortDevices, "rates")

NextSort ==
    \/ CallRates
    \/ CallErrors
    \/ ReadInterfaces
    \/ NormalizePort
    \/ NormalizeReturn
    \/ CallEnvironment
    \/ SortInterfaces
    \/ PrepareData

SpecSort == InitSort /\ [][NextSort]_vars

\* the same steps on rate records with whole, zero, fractional and missing
\* rates
InitProject == InitAt(ProjectDevices, "rates")

SpecProject == InitProject /\ [][NextSort]_vars

-----------------------------------------------------------------------------
(* Properties.                                                              *)

Range(s) == {s[i] : i \in 1..Len(s)}

\* the position of a port name in a mapping (0 if it is not a key)
PositionOf(d, key) ==
    IF key \in DictKeys(d) THEN CHOOSE i \in 1..Len(d) : d[i][1] = key ELSE 0

\* C1: every record of the normalized mapping has totalErrors equal to the
\* sum of its own seven error fields (inErrors, outErrors, frameTooLongs,
\* frameTooShorts, fcsErrors, alignmentErrors, symbolErrors), whatever the
\* error mapping holds for the port - no entry, some fields, or a
\* totalErrors of its own, which is never used.
C1_TotalErrorsIsSum ==
    \A i \in 1..Len(combined_data) :
        LET r == combined_data[i][2]
        IN  r.totalErrors =
                r.inErrors + r.outErrors + r.frameTooLongs + r.frameTooShorts
                + r.fcsErrors + r.alignmentErrors + r.symbolErrors

\* the normalizer has returned a record whose error entry carried a
\* totalErrors of 99 beside inErrors = 1, and a record of a port without entry
C1_Witness ==
    /\ pc = "environment"
    /\ \E i \in 1..Len(dev.rates.interfaces) :
          LET port == dev.rates.interfaces[i][1]
          IN  /\ port \in DOMAIN dev.errors.counters
              /\ dev.errors.counters[port].totalErrors = 99
              /\ DictGet(combined_data, Canonical(port), EmptyDict).totalErrors = 1
    /\ \E i \in 1..Len(dev.rates.interfaces) :
          dev.rates.interfaces[i][1] \notin DOMAIN dev.errors.counters

AllErrorsZero(r) ==
    /\ \A i \in 1..Len(ErrorFields) : Get(r, ErrorFields[i], -1) = 0
    /\ Get(r, "totalErrors", -1) = 0

\* C2: the loop iteration of get_interface_counters for a port that is a key
\* of the rate mapping but not of the error mapping stores a record whose
\* seven error fields and totalErrors are all 0, and it raises nothing: the
\* loop goes on to the next port.
C2_MissingErrorEntryIsZero ==
    [][(/\ pc = "normalize"
        /\ port_idx <= Len(dev.rates.interfaces)
        /\ dev.rates.interfaces[port_idx][1] \notin DOMAIN dev.errors.counters)
       => (/\ AllErrorsZero(DictGet(combined_data',
                                    Canonical(dev.rates.interfaces[port_idx][1]),
                                    EmptyDict))
           /\ port_idx' = port_idx + 1
           /\ pc' = "normalize"
           /\ raised' = "none")]_vars

\* the normalizer has returned; Ethernet1 had no error entry while the error
\* mapping has one for Eth1, and Ethernet1's record is all zero beside a
\* record with errors
C2_Witness ==
    /\ pc = "environment"
    /\ raised = "none"
    /\ Len(dev.rates.interfaces) = 2
    /\ dev.rates.interfaces[2][1] = Ethernet \o <<"1">>
    /\ Ethernet \o <<"1">> \notin DOMAIN dev.errors.counters
    /\ Eth \o <<"1">> \in DOMAIN dev.errors.counters
    /\ AllErrorsZero(DictGet(combined_data, Eth \o <<"1">>, EmptyDict))
    /\ \E i \in 1..Len(combined_data) : combined_data[i][2].totalErrors > 0

\* C3: the returned snapshot's fan and power-supply sequences are never
\* empty, the sentinel "N/A" is in a sequence only as its single entry, and
\* at the return after the loop a list with no parsed row becomes exactly
\* <<"N/A">> while a list with parsed rows is returned as it is.
C3_SentinelWhenNoRows ==
    /\ [](pc = "sort" =>
            /\ environment_info.FanStatus # <<>>
            /\ environment_info.PowerSupplyStatus # <<>>
            /\ NA \in Range(environment_info.FanStatus)
                  => environment_info.FanStatus = <<NA>>
            /\ NA \in Range(environment_info.PowerSupplyStatus)
                  => environment_info.PowerSupplyStatus = <<NA>>)
    /\ [][(pc = "parse" /\ pc' = "sort") =>
            /\ environment_info'.FanStatus =
                  IF fan_status_list = <<>> THEN <<NA>> ELSE fan_status_list
            /\ environment_info'.PowerSupplyStatus =
                  IF power_supply_status_list = <<>> THEN <<NA>>
                  ELSE power_supply_status_list]_vars

\* a power row was parsed and no fan row: the fan sequence is the sentinel
\* and the power sequence holds the row
C3_Witness ==
    /\ pc = "sort"
    /\ lines # <<>>
    /\ environment_info.FanStatus = <<NA>>
    /\ Len(environment_info.PowerSupplyStatus) = 1
    /\ environment_info.PowerSupplyStatus # <<NA>>

\* C4: the sequence returned by sort_eth_interfaces is in non-decreasing
\* order of the ports' digit tuples (the maximal digit runs of the name as
\* integers, compared as Python compares lists of ints), and two ports with
\* the same digit tuple are in the order they have in the input mapping.
C4_SortedByDigitTuple ==
    \A i, j \in 1..Len(sorted_eth_interfaces) :
        i < j =>
            LET a == sorted_eth_interfaces[i][1]
                b == sorted_eth_interfaces[j][1]
            IN  /\ ~ListLess(InterfaceSortKey(b), InterfaceSortKey(a))
                /\ InterfaceSortKey(a) = InterfaceSortKey(b)
                      => PositionOf(combined_data, a) < PositionOf(combined_data, b)

\* the mapping held Eth1/10 before Eth1/2 and Eth01/1 before Eth1/1; the
\* output has Eth01/1, Eth1/1 (a tie, input order), Eth1/2, Eth1/10
C4_Witness ==
    /\ pc = "prepare"
    /\ PositionOf(combined_data, Eth \o <<"1", "/", "1", "0">>) = 1
    /\ PositionOf(combined_data, Eth \o <<"1", "/", "2">>) > 1
    /\ [i \in 1..Len(sorted_eth_interfaces) |-> sorted_eth_interfaces[i][1]]
           = <<Eth \o <<"0", "1", "/", "1">>, Eth \o <<"1", "/", "1">>,
               Eth \o <<"1", "/", "2">>, Eth \o <<"1", "/", "1", "0">>>>

SeriesNames ==
    {"labels", "port_numbers", "in_bps_data", "out_bps_data", "in_errors_data",
     "out_errors_data", "frame_too_longs_data", "frame_too_shorts_data",
     "fcs_errors_data", "alignment_errors_data", "symbol_errors_data",
     "total_errors_data"}

\* C5: the series returned by prepare_interface_data has twelve sequences
\* of the length L of the sorted input, and at every index i each sequence
\* holds the value of the i-th sorted port: its name, the first number of its
\* name, its two rates (whole * 1,000,000 + micro is the rate) and its eight
\* counters.
C5_SeriesAligned ==
    pc = "write" =>
        /\ DOMAIN data = SeriesNames
        /\ \A f \in SeriesNames : Len(data[f]) = Len(sorted_eth_interfaces)
        /\ \A i \in 1..Len(sorted_eth_interfaces) :
              LET port == sorted_eth_interfaces[i][1]
                  r == sorted_eth_interfaces[i][2]
              IN  /\ data.labels[i] = port
                  /\ data.port_numbers[i] = InterfaceSortKey(port)[1]
                  /\ data.in_bps_data[i].whole * Million + data.in_bps_data[i].micro
                        = r.inBpsRate
                  /\ data.out_bps_data[i].whole * Million + data.out_bps_data[i].micro
                        = r.outBpsRate
                  /\ data.in_errors_data[i] = r.inErrors
                  /\ data.out_errors_data[i] = r.outErrors
                  /\ data.frame_too_longs_data[i] = r.frameTooLongs
                  /\ data.frame_too_shorts_data[i] = r.frameTooShorts
                  /\ data.fcs_errors_data[i] = r.fcsErrors
                  /\ data.alignment_errors_data[i] = r.alignmentErrors
                  /\ data.symbol_errors_data[i] = r.symbolErrors
                  /\ data.total_errors_data[i] = r.totalErrors

\* a series of three ports was returned, one of them without errors and
\* with an outbound rate of 0
C5_Witness ==
    /\ pc = "write"
    /\ Len(data.labels) = 3
    /\ \E i, j \in 1..3 :
          /\ data.total_errors_data[i] = 0
          /\ data.total_errors_data[j] > 0
          /\ data.out_bps_data[i] = [whole |-> 0, micro |-> 0]
          /\ data.in_bps_data[j].micro > 0

\* a port of the normalized mapping that passes the "Eth" filter and has no digit
DigitlessEthPort(port) == StartsWith(port, Eth) /\ FindAllDigits(port) = <<>>

\* C6: with a port in the normalized mapping whose canonical name starts
\* with "Eth" and holds no digit, ordering and projection raise nothing and
\* return the series of the other "Eth" ports, the digitless port left out.
C6_DigitlessPortExcluded ==
    (/\ pc \in {"write", "except"}
     /\ \E i \in 1..Len(combined_data) : DigitlessEthPort(combined_data[i][1]))
    => /\ raised = "none"
       /\ pc = "write"
       /\ data.labels =
             SelectSeq([i \in 1..Len(sorted_eth_interfaces) |->
                           sorted_eth_interfaces[i][1]],
                       LAMBDA port : ~DigitlessEthPort(port))

\* the outcome of the call that handed cmds to execute_command
OutcomeOf(cmds) ==
    CASE cmds = FactsCmds -> dev.facts.outcome
      [] cmds = RatesCmds -> dev.rates.outcome
      [] cmds = ErrorsCmds -> dev.errors.outcome
      [] cmds = EnvCmds -> dev.env.outcome

CallOrder == <<FactsCmds, RatesCmds, ErrorsCmds, EnvCmds>>

\* the calls are issued in the order facts, rates, errors, environment, each
\* at most once
CallsInOrder == Len(calls) <= 4 /\ calls = Take(CallOrder, Len(calls))

\* a report is written only after four calls that all succeeded
ReportOnlyAfterFourCalls ==
    report_written =>
        /\ Len(calls) = 4
        /\ \A i \in 1..4 : OutcomeOf(calls[i]) = "ok"

\* C7 as stated: the four calls go out in the order facts, rates, errors,
\* environment; after a call that fails or whose payload lacks an expected
\* field no call is issued (neither the same one again nor a later one) and
\* no report is written; a report is written only after four good calls.
C7_NoCallAfterBadCall ==
    /\ CallsInOrder
    /\ \A i \in 1..Len(calls) :
          OutcomeOf(calls[i]) # "ok" => Len(calls) = i /\ ~report_written
    /\ ReportOnlyAfterFourCalls

\* C7 amended: as C7, except that a rate-counter payload lacking "result" or
\* "interfaces" is read only after the error-counter call has been issued:
\* that one call may follow it, the environment call does not.
C7_NoCallAfterBadCallButErrors ==
    /\ CallsInOrder
    /\ \A i \in 1..Len(calls) :
          OutcomeOf(calls[i]) # "ok" =>
              /\ ~report_written
              /\ IF calls[i] = RatesCmds /\ OutcomeOf(calls[i]) \in {"no_result", "no_field"}
                 THEN Len(calls) <= i + 1
                 ELSE Len(calls) = i
    /\ ReportOnlyAfterFourCalls

\* the rate-counter payload lacked its field, the error-counter call was
\* issued all the same, and the run ended without environment call or report
C7_Witness ==
    /\ pc = "exited"
    /\ dev.rates.outcome = "no_field"
    /\ calls = <<FactsCmds, RatesCmds, ErrorsCmds>>
    /\ ~report_written

\* C8: a run in which an exception reached main has printed the error
\* message, written no file and ended with a non-zero exit status; a run
\* ends with exit status 0 only if the report file was written.
C8_FailureExitStatus ==
    pc = "exited" =>
        /\ raised # "none" =>
              /\ printed = "Error generating report: " \o raised
              /\ ~report_written
              /\ exit_status # 0
        /\ exit_status = 0 => report_written

\* C9: for a response without "messages" or with an empty list the snapshot
\* returned is the all-sentinel one and no line was split off or processed;
\* a blob that is the empty text returns the same snapshot.
C9_SentinelSnapshot ==
    (/\ pc = "sort"
     /\ Get(dev.env.env_info, "messages", <<>>) \in {<<>>, <<<<>>>>})
    => /\ environment_info =
             [CoolingStatus      |-> <<"N", "/", "A">>,
              AmbientTemperature |-> <<"N", "/", "A">>,
              FanStatus          |-> <<<<"N", "/", "A">>>>,
              PowerSupplyStatus  |-> <<<<"N", "/", "A">>>>]
       /\ lines = <<>>
       /\ line_idx = 1

\* get_environment_info has returned for a response without "messages"
C9_Witness ==
    /\ pc = "sort"
    /\ "messages" \notin DOMAIN dev.env.env_info
    /\ environment_info.FanStatus = <<NA>>
    /\ calls = <<EnvCmds>>

\* C10: for every blob the parser returns a snapshot.  Nothing is raised
\* and control stays in the loop or at the return; each step of the loop
\* leaves the list of lines as it is and either moves on by exactly one
\* line - so every line is consumed once and the loop ends after Len(lines)
\* steps - or, with every line consumed, returns; the returned snapshot has
\* its four fields set.
C10_ParserTotal ==
    /\ [](/\ raised = "none"
          /\ pc \in {"environment", "parse", "sort"}
          /\ pc = "parse" => line_idx \in 1..(Len(lines) + 1)
          /\ pc = "sort" =>
                /\ line_idx = Len(lines) + 1
                /\ DOMAIN environment_info =
                      {"CoolingStatus", "AmbientTemperature", "FanStatus",
                       "PowerSupplyStatus"})
    /\ [][pc = "parse" =>
            /\ lines' = lines
            /\ pc' = "parse" => line_idx' = line_idx + 1
            /\ pc' # "parse" => line_idx' = line_idx /\ line_idx = Len(lines) + 1]_vars

\* the parser has returned after three lines none of which it recognizes as
\* a declaration, a header or a row: junk and a row outside any section
C10_Witness ==
    /\ pc = "sort"
    /\ lines = <<JunkLine, FanRowLine, DashFanRowLine>>
    /\ line_idx = 4
    /\ environment_info.FanStatus = <<NA>>

\* the stripped lines of the blob
StrippedLines == [i \in 1..Len(lines) |-> Strip(lines[i])]

\* what follows the prefix p in line, leading whitespace skipped
AfterPrefix(line, p) == LStrip(Drop(line, Len(p)))

\* a cooling-status declaration: the prefix, optional whitespace, a status word
IsCoolingDeclaration(line) ==
    /\ StartsWith(line, CoolingPrefix)
    /\ AfterPrefix(line, CoolingPrefix) # <<>>
    /\ IsWord(Head(AfterPrefix(line, CoolingPrefix)))

\* the status word of a cooling-status declaration
RECURSIVE WordPrefix(_)
WordPrefix(s) ==
    IF s # <<>> /\ IsWord(Head(s)) THEN <<Head(s)>> \o WordPrefix(Tail(s)) ELSE <<>>

\* an ambient-temperature declaration: the prefix, optional whitespace,
\* digits and a "C"
IsTemperatureDeclaration(line) ==
    LET rest == AfterPrefix(line, AmbientPrefix)
    IN  /\ StartsWith(line, AmbientPrefix)
        /\ DigitRun(rest) >= 1
        /\ DigitRun(rest) < Len(rest)
        /\ rest[DigitRun(rest) + 1] = "C"

CoolingDeclarations == {i \in 1..Len(lines) : IsCoolingDeclaration(StrippedLines[i])}

TemperatureDeclarations ==
    {i \in 1..Len(lines) : IsTemperatureDeclaration(StrippedLines[i])}

SetMax(S) == CHOOSE i \in S : \A j \in S : j <= i

\* C11: in the returned snapshot the cooling status is "N/A" exactly when no
\* line of the blob is a cooling-status declaration, and otherwise it is the
\* status word of the last such line; the ambient temperature is "N/A" when
\* no line is a temperature declaration; both fields are present and not
\* empty.  With "System cooling status is: OK" as the last declaration and no
\* fan or power header in the blob, the cooling status is "OK" and the fan and
\* power sequences are <<"N/A">>.
C11_CoolingAndTemperature ==
    pc = "sort" =>
        /\ {"CoolingStatus", "AmbientTemperature"} \subseteq DOMAIN environment_info
        /\ environment_info.CoolingStatus # <<>>
        /\ environment_info.AmbientTemperature # <<>>
        /\ environment_info.CoolingStatus = NA <=> CoolingDeclarations = {}
        /\ CoolingDeclarations # {} =>
              environment_info.CoolingStatus =
                  WordPrefix(AfterPrefix(StrippedLines[SetMax(CoolingDeclarations)],
                                         CoolingPrefix))
        /\ TemperatureDeclarations = {} => environment_info.AmbientTemperature = NA
        /\ (/\ CoolingDeclarations # {}
            /\ lines[SetMax(CoolingDeclarations)] = CoolingLine
            /\ \A i \in 1..Len(lines) :
                  ~IsFanHeader(StrippedLines[i]) /\ ~IsPowerHeader(StrippedLines[i]))
           => /\ environment_info.CoolingStatus = <<"O", "K">>
              /\ environment_info.FanStatus = <<NA>>
              /\ environment_info.PowerSupplyStatus = <<NA>>

\* two declarations, "OK" then "Bad" (without a space after the colon), and
\* no header: the snapshot holds "Bad", no temperature and the two sentinels
C11_Witness ==
    /\ pc = "sort"
    /\ lines = <<CoolingLine, FanRowLine, CoolingLineBad>>
    /\ environment_info.CoolingStatus = <<"B", "a", "d">>
    /\ environment_info.AmbientTemperature = NA
    /\ environment_info.FanStatus = <<NA>>

\* the port names of the rate mapping the device returned
RatePorts == {dev.rates.interfaces[i][1] : i \in 1..Len(dev.rates.interfaces)}

\* C12: the mapping returned by the counter normalizer has exactly the
\* canonical names of the rate mapping's ports as keys, as many records as
\* the rate mapping has ports (distinct ports, distinct records), and no key
\* for a port that is only in the error mapping.
C12_OneRecordPerRatePort ==
    (pc = "environment" /\ raised = "none") =>
        /\ DictKeys(combined_data) = {Canonical(port) : port \in RatePorts}
        /\ Len(combined_data) = Cardinality(RatePorts)
        /\ \A port \in DOMAIN dev.errors.counters \ RatePorts :
              Canonical(port) \in DictKeys(combined_data)
                  => \E rate_port \in RatePorts : Canonical(rate_port) = Canonical(port)

\* the positions of the normalized mapping whose port starts with "Eth"
EthPositions == {i \in 1..Len(combined_data) : StartsWith(combined_data[i][1], Eth)}

\* C13: the sequence returned by sort_eth_interfaces holds every port of the
\* normalized mapping whose name starts with "Eth" exactly once, with the
\* record the mapping has for it, and nothing else; a port without the
\* prefix is in neither the sequence nor any series of the projection.
C13_OnlyEthPorts ==
    pc \in {"prepare", "write"} =>
        /\ \A i \in EthPositions :
              Cardinality({j \in 1..Len(sorted_eth_interfaces) :
                              sorted_eth_interfaces[j][1] = combined_data[i][1]}) = 1
        /\ \A j \in 1..Len(sorted_eth_interfaces) :
              \E i \in EthPositions : sorted_eth_interfaces[j] = combined_data[i]
        /\ Len(sorted_eth_interfaces) = Cardinality(EthPositions)
        /\ pc = "write" =>
              /\ \A f \in DOMAIN data : Len(data[f]) = Cardinality(EthPositions)
              /\ \A j \in 1..Len(data.labels) :
                    \E i \in EthPositions : data.labels[j] = combined_data[i][1]

\* Management1 is in the normalized mapping between two Ethernet ports and
\* the series was returned with the two Ethernet ports only
C13_Witness ==
    /\ pc = "write"
    /\ Len(combined_data) = 3
    /\ combined_data[2][1] = Management \o <<"1">>
    /\ Len(sorted_eth_interfaces) = 2
    /\ Len(data.labels) = 2
    /\ \A j \in 1..2 : StartsWith(data.labels[j], Eth)

\* the rate the device reported for the port with the canonical name label,
\* 0 when its record has no such field
DeviceRate(label, field) ==
    LET i == CHOOSE j \in 1..Len(dev.rates.interfaces) :
                 Canonical(dev.rates.interfaces[j][1]) = label
    IN  Get(dev.rates.interfaces[i][2], field, 0)

\* value (whole units and millionths) is rate / 1,000,000
IsRateInMillions(value, rate) ==
    /\ value.micro \in 0..(Million - 1)
    /\ (rate - value.micro) % Million = 0
    /\ (rate - value.micro) \div Million = value.whole
    /\ rate = 0 => value = [whole |-> 0, micro |-> 0]

\* C14: in the returned series every "Eth" port of the rate mapping has an
\* index, and the inbound and outbound values at it are the rate the device
\* reported for the port divided by 1,000,000, which is exactly 0 for a rate
\* of zero and for a record without the rate; Ethernet1 with inBpsRate
\* 2,000,000, outBpsRate 1,000,000 and no error entry has the label "Eth1",
\* inbound 2, outbound 1 and 0 in every error series.
C14_RatesInMillions ==
    pc = "write" =>
        /\ {data.labels[i] : i \in 1..Len(data.labels)} =
              {Canonical(port) : port \in {p \in RatePorts : StartsWith(Canonical(p), Eth)}}
        /\ Len(data.in_bps_data) = Len(data.labels)
        /\ Len(data.out_bps_data) = Len(data.labels)
        /\ \A i \in 1..Len(data.labels) :
              /\ IsRateInMillions(data.in_bps_data[i],
                                  DeviceRate(data.labels[i], "inBpsRate"))
              /\ IsRateInMillions(data.out_bps_data[i],
                                  DeviceRate(data.labels[i], "outBpsRate"))
        /\ \A j \in 1..Len(dev.rates.interfaces) :
              (/\ dev.rates.interfaces[j][1] = Ethernet \o <<"1">>
               /\ Get(dev.rates.interfaces[j][2], "inBpsRate", 0) = 2 * Million
               /\ Get(dev.rates.interfaces[j][2], "outBpsRate", 0) = Million
               /\ Ethernet \o <<"1">> \notin DOMAIN dev.errors.counters)
              => \E i \in 1..Len(data.labels) :
                    /\ data.labels[i] = Eth \o <<"1">>
                    /\ data.in_bps_data[i] = [whole |-> 2, micro |-> 0]
                    /\ data.out_bps_data[i] = [whole |-> 1, micro |-> 0]
                    /\ \A f \in SeriesNames \ {"labels", "port_numbers", "in_bps_data",
                                               "out_bps_data"} : data[f][i] = 0

\* the series of Ethernet1 (2,000,000 in, 1,000,000 out, no error entry) and
\* of Ethernet2, whose record has no rate at all and whose error entry counts
\* errors
C14_Witness ==
    /\ pc = "write"
    /\ dev.rates.interfaces =
          <<<<Ethernet \o <<"2">>, [description |-> "bare"]>>,
            <<Ethernet \o <<"1">>,
              [description |-> "uplink", inBpsRate |-> 2000000, outBpsRate |-> 1000000]>>>>
    /\ DOMAIN dev.errors.counters = {Ethernet \o <<"2">>}
    /\ data.labels = <<Eth \o <<"1">>, Eth \o <<"2">>>>
    /\ data.in_bps_data = <<[whole |-> 2, micro |-> 0], [whole |-> 0, micro |-> 0]>>
    /\ data.out_bps_data = <<[whole |-> 1, micro |-> 0], [whole |-> 0, micro |-> 0]>>
    /\ data.total_errors_data = <<0, 17>>

\* the parse mode the two flags stand for
Mode ==
    IF parsing_fan /\ parsing_power THEN "BOTH"
    ELSE IF parsing_fan THEN "FAN"
    ELSE IF parsing_power THEN "POWER"
    ELSE "NONE"

\* a fan-section header starts with "Fan" and holds "Status"; a power-section
\* header starts with "Power" and holds "Supply"
IsFanSectionHeader(line) ==
    /\ Len(line) >= 3
    /\ Take(line, 3) = <<"F", "a", "n">>
    /\ \E i \in 1..Len(line) : Take(Drop(line, i - 1), 6) = <<"S", "t", "a", "t", "u", "s">>

IsPowerSectionHeader(line) ==
    /\ Len(line) >= 5
    /\ Take(line, 5) = <<"P", "o", "w", "e", "r">>
    /\ \E i \in 1..Len(line) : Take(Drop(line, i - 1), 6) = <<"S", "u", "p", "p", "l", "y">>

\* the positions of the section headers among the lines consumed so far
HeadersSeen ==
    {i \in 1..Len(lines) :
        /\ i < line_idx
        /\ IsFanSectionHeader(StrippedLines[i]) \/ IsPowerSectionHeader(StrippedLines[i])}

\* C15: while the parser goes through the lines its mode is NONE when no
\* section header is among the lines consumed so far, FAN when the last such
\* header is a fan header and POWER when it is a power header; the two flags
\* are never both set, and no step takes the parser from FAN or POWER back
\* to NONE.
C15_ModeFollowsLastHeader ==
    /\ [](pc = "parse" =>
             /\ ~(parsing_fan /\ parsing_power)
             /\ Mode = IF HeadersSeen = {} THEN "NONE"
                       ELSE IF IsFanSectionHeader(StrippedLines[SetMax(HeadersSeen)])
                            THEN "FAN"
                            ELSE "POWER")
    /\ [][(pc = "parse" /\ Mode # "NONE") => Mode' # "NONE"]_vars

\* a fan header, a power header and a fan header with columns were consumed:
\* the mode went FAN, POWER and is FAN again
C15_Witness ==
    /\ pc = "parse"
    /\ lines = <<FanHeaderLine, PowerHeaderLine, FanHeaderRowLine>>
    /\ line_idx = 4
    /\ Mode = "FAN"

\* an airflow declaration: the prefix and at least one more character
IsAirflowDeclaration(line) ==
    StartsWith(line, AirflowPrefix) /\ Len(line) > Len(AirflowPrefix)

\* the line matches one of the rules tried before the row patterns
MatchesHigherRule(line) ==
    \/ IsCoolingDeclaration(line)
    \/ IsTemperatureDeclaration(line)
    \/ IsAirflowDeclaration(line)
    \/ IsFanSectionHeader(line)
    \/ IsPowerSectionHeader(line)

\* the parser is about to process a line
AtLine == pc = "parse" /\ line_idx <= Len(lines)

\* the parts of the parser's state that the step changes
ChangedParts ==
    {part \in {"cooling", "temperature", "airflow", "mode", "fan", "power"} :
        CASE part = "cooling" -> cooling_status' # cooling_status
          [] part = "temperature" -> ambient_temperature' # ambient_temperature
          [] part = "airflow" -> airflow' # airflow
          [] part = "mode" -> Mode' # Mode
          [] part = "fan" -> fan_status_list' # fan_status_list
          [] part = "power" -> power_supply_status_list' # power_supply_status_list}

\* s is t with one more entry at its end
OneAppended(s, t) == Len(s) = Len(t) + 1 /\ SubSeq(s, 1, Len(t)) = t

\* C16: processing one line changes at most one part of the parser's state
\* (cooling status, temperature, airflow, mode, fan sequence, power
\* sequence).  The fan sequence changes only by one entry appended, and only
\* when the mode is FAN and the line matches none of the cooling,
\* temperature, airflow and header rules; the power sequence likewise in
\* mode POWER; a line that has the shape of a header sets the mode and
\* appends nothing, whatever else it matches.
C16_FirstMatchWins ==
    [][AtLine =>
          LET line == StrippedLines[line_idx]
          IN  /\ Cardinality(ChangedParts) <= 1
              /\ fan_status_list' # fan_status_list =>
                    /\ Mode = "FAN"
                    /\ ~MatchesHigherRule(line)
                    /\ OneAppended(fan_status_list', fan_status_list)
              /\ power_supply_status_list' # power_supply_status_list =>
                    /\ Mode = "POWER"
                    /\ ~MatchesHigherRule(line)
                    /\ OneAppended(power_supply_status_list', power_supply_status_list)
              /\ IsFanSectionHeader(line) =>
                    /\ Mode' = "FAN"
                    /\ fan_status_list' = fan_status_list
                    /\ power_supply_status_list' = power_supply_status_list
              /\ IsPowerSectionHeader(line) =>
                    /\ Mode' = "POWER"
                    /\ fan_status_list' = fan_status_list
                    /\ power_supply_status_list' = power_supply_status_list]_vars

\* in the fan section a line with the shape of both a fan header and a fan
\* row was consumed as a header, and the row after it was appended
C16_Witness ==
    /\ pc = "parse"
    /\ lines = <<FanHeaderLine, FanHeaderRowLine, FanRowLine>>
    /\ line_idx = 4
    /\ FanMatch(FanHeaderRowLine)[1]
    /\ Len(fan_status_list) = 1
    /\ power_supply_status_list = <<>>

\* a line made of dashes and whitespace only
IsDashLine(line) == \A i \in 1..Len(line) : line[i] = "-" \/ IsSpace(line[i])

\* C17: a line processed in mode FAN that is not empty, is not made of
\* dashes and whitespace only, matches none of the declaration and header
\* rules and has the shape of a fan row (label, status word, two
\* percentages) is rendered and appended to the fan sequence as one entry,
\* also when its label begins with a dash; likewise a power row in mode
\* POWER.
C17_EveryRowAppended ==
    [][AtLine =>
          LET line == StrippedLines[line_idx]
              is_row == line # <<>> /\ ~IsDashLine(line) /\ ~MatchesHigherRule(line)
          IN  /\ (Mode = "FAN" /\ is_row /\ FanMatch(line)[1]) =>
                    fan_status_list' =
                        Append(fan_status_list, FanEntry(FanMatch(line)[2]))
              /\ (Mode = "POWER" /\ is_row /\ PowerMatch(line)[1]) =>
                    power_supply_status_list' =
                        Append(power_supply_status_list,
                               PowerEntry(PowerMatch(line)[2]))]_vars

\* the line sets no field and no mode: it is empty, a separator or an
\* airflow declaration, or it matches no declaration and no header and is
\* not a row of the section the parser is in
SetsNothing(line) ==
    /\ ~IsCoolingDeclaration(line)
    /\ ~IsTemperatureDeclaration(line)
    /\ ~IsFanSectionHeader(line)
    /\ ~IsPowerSectionHeader(line)
    /\ \/ line = <<>>
       \/ IsDashLine(line)
       \/ IsAirflowDeclaration(line)
       \/ Mode = "NONE"
       \/ Mode = "FAN" /\ ~FanMatch(line)[1]
       \/ Mode = "POWER" /\ ~PowerMatch(line)[1]

\* C18: processing an empty line, a separator line, an airflow declaration
\* or a line that matches no rule (any other line in mode NONE, a line that
\* is not a fan row in mode FAN, a line that is not a power row in mode
\* POWER) leaves the mode, the cooling status, the ambient temperature, the
\* fan sequence and the power sequence as they are; so a row before any
\* header and a row of the other section are dropped.
C18_UnmatchedLineChangesNothing ==
    [][(AtLine /\ SetsNothing(StrippedLines[line_idx])) =>
          /\ parsing_fan' = parsing_fan
          /\ parsing_power' = parsing_power
          /\ cooling_status' = cooling_status
          /\ ambient_temperature' = ambient_temperature
          /\ fan_status_list' = fan_status_list
          /\ power_supply_status_list' = power_supply_status_list]_vars

\* a fan row before any header and, after the power header, a fan row in
\* the power section were consumed and nothing was appended
C18_Witness ==
    /\ pc = "parse"
    /\ lines = <<FanRowLine, PowerHeaderLine, FanRowLine>>
    /\ line_idx = 4
    /\ Mode = "POWER"
    /\ fan_status_list = <<>>
    /\ power_supply_status_list = <<>>
    /\ cooling_status = NA

=============================================================================
